---- MODULE Spec2Model ----
(***************************************************************************)
(* Model of main.py: a FastAPI service with two request handlers,          *)
(* launch_browser and scrape_current, one process-wide browser handle      *)
(* (driver_keeper), a quota-aware call of the generation capability        *)
(* (safe_generate_content) and an append-only CSV store (init_csv,         *)
(* save_to_csv).                                                           *)
(*                                                                         *)
(* External capabilities (the browser, the generation provider, the file   *)
(* system) are the environment: wherever the code calls one, the model     *)
(* takes every outcome of that call from a small set.  A helper that calls *)
(* the environment is therefore a set-valued operator: the set of results  *)
(* the code can end with.  The handlers run to completion one at a time    *)
(* (requests are human-paced), so each handler is one action.              *)
(*                                                                         *)
(* Left out: clean_html and the prompt text (the provider's answer is an   *)
(* environment choice whatever the prompt), the console output, and the    *)
(* fixed sleeps of 0.1 s and 1 s; the waits of the invoker are recorded.   *)
(* A session that stopped answering current_url stays dead.                *)
(***************************************************************************)
EXTENDS Integers, Sequences, FiniteSets, TLC

VARIABLES
    driver_keeper,  \* the global handle: None or the id of a browser session
    live,           \* ids of the sessions whose current_url can still be read
    sessions,       \* number of browser sessions constructed so far
    csv,            \* the file CSV_FILE: [exists, rows]
    clock,          \* logical capture time: one tick per extract request
    successes,      \* number of extract requests answered with status success
    stored,         \* number of save_to_csv calls that completed the row write
    last            \* the last request: what it saw, did and answered

vars == <<driver_keeper, live, sessions, csv, clock, successes, stored, last>>

(***************************************************************************)
(* Bounds of the model.                                                    *)
(***************************************************************************)
MaxScrapes == 2     \* extract requests per behaviour
MaxSessions == 2    \* browser sessions constructed per behaviour

None == 0

(***************************************************************************)
(* Strings: substring search and str.lower(), character by character.      *)
(***************************************************************************)
UpperAlpha == "ABCDEFGHIJKLMNOPQRSTUVWXYZ"
LowerAlpha == "abcdefghijklmnopqrstuvwxyz"

LowerChar(c) ==
    IF \E i \in 1..26 : SubSeq(UpperAlpha, i, i) = c
    THEN LET i == CHOOSE j \in 1..26 : SubSeq(UpperAlpha, j, j) = c
         IN  SubSeq(LowerAlpha, i, i)
    ELSE c

RECURSIVE Lower(_)
Lower(s) ==
    IF Len(s) = 0 THEN ""
    ELSE LowerChar(SubSeq(s, 1, 1)) \o Lower(SubSeq(s, 2, Len(s)))

\* Python's  sub in s
Contains(s, sub) ==
    \E i \in 1..(Len(s) - Len(sub) + 1) : SubSeq(s, i, i + Len(sub) - 1) = sub

(***************************************************************************)
(* JSON values as json.loads yields them.                                  *)
(***************************************************************************)
Str(s) == <<"str", s>>
Num(n) == <<"num", n>>
Null == <<"null">>

Dict(m) == [kind |-> "dict", map |-> m]
List == [kind |-> "list", map |-> <<>>]
NoData == [kind |-> "none", map |-> <<>>]

(***************************************************************************)
(* The store.                                                              *)
(***************************************************************************)
CSV_HEADERS ==
    << "Timestamp", "URL",
       "Agent Name", "Agent Phone", "Agency Name", "Agent License",
       "Title", "Price", "Address", "District",
       "Property Type", "Tenure", "Built Year", "Developer",
       "Bedrooms", "Bathrooms", "Size (sqft)", "Price per sqft",
       "Furnishing", "Floor Level", "Facilities", "Description Summary" >>

Absent == [exists |-> FALSE, rows |-> <<>>]
File(rows) == [exists |-> TRUE, rows |-> rows]

\* Outcomes of open(CSV_FILE, mode) and of writing the buffered row at close.
OpenOutcomes == {"ok", "PermissionError", "OSError"}
WriteOutcomes == {"ok", "OSError"}

\* init_csv: the file system's state afterwards and the exception that left it.
InitResult(file, raised) == [file |-> file, raised |-> raised]

init_csv(file) ==
    IF file.exists
    THEN {InitResult(file, "none")}
    ELSE { IF o = "PermissionError" THEN InitResult(file, "none")
           ELSE IF o = "OSError" THEN InitResult(file, "OSError")
           ELSE IF w = "OSError" THEN InitResult(File(<<>>), "OSError")
           ELSE InitResult(File(<<CSV_HEADERS>>), "none")
           : o \in OpenOutcomes, w \in WriteOutcomes }

\* time.strftime("%Y-%m-%d %H:%M:%S") at logical time t
strftime(t) == "2026-01-01 00:00:" \o (IF t < 10 THEN "0" ELSE "") \o ToString(t)

\* csv.writer's rendering of one value of the row
CsvCell(v) ==
    IF v[1] = "str" THEN v[2]
    ELSE IF v[1] = "null" THEN ""
    ELSE ToString(v[2])

\* data.get(key, "N/A") as save_to_csv uses it
GetWrongDefault(m, key) == IF key \in DOMAIN m THEN m[key] ELSE Null
Get(m, key) == IF key \in DOMAIN m THEN m[key] ELSE Str("N/A")

row_data(m, url, now) ==
    << Str(strftime(now)),
       Str(url),
       Get(m, "agent_name"),
       Get(m, "agent_phone"),
       Get(m, "agency_name"),
       Get(m, "agent_license"),
       Get(m, "title"),
       Get(m, "price"),
       Get(m, "address"),
       Get(m, "district"),
       Get(m, "property_type"),
       Get(m, "tenure"),
       Get(m, "built_year"),
       Get(m, "developer"),
       Get(m, "bedrooms"),
       Get(m, "bathrooms"),
       Get(m, "size_sqft"),
       Get(m, "psf"),
       Get(m, "furnishing"),
       Get(m, "floor_level"),
       Get(m, "facilities"),
       Get(m, "description_summary") >>

writerow(values) == [i \in 1..Len(values) |-> CsvCell(values[i])]

\* open(CSV_FILE, mode='a') followed by writer.writerow(row)
AppendRowOverwrite(rows, row) == <<row>>
AppendRow(rows, row) == Append(rows, row)

\* the except clauses of save_to_csv: what still reaches the caller
UncaughtOnlyPermission(raised) == IF raised = "PermissionError" THEN "none" ELSE raised
Uncaught(raised) == "none"

SaveResult(file, saved, raised) ==
    [file |-> file, saved |-> saved, raised |-> Uncaught(raised)]

save_to_csv(file, data, url, now) ==
    UNION {
        IF i.raised # "none" THEN {SaveResult(i.file, FALSE, i.raised)}
        ELSE IF data.kind # "dict" THEN {SaveResult(i.file, FALSE, "AttributeError")}
        ELSE LET row == writerow(row_data(data.map, url, now))
             IN  { IF o # "ok" THEN SaveResult(i.file, FALSE, o)
                   ELSE IF w # "ok" THEN SaveResult(File(i.file.rows), FALSE, w)
                   ELSE SaveResult(File(AppendRow(i.file.rows, row)), TRUE, "none")
                   : o \in OpenOutcomes, w \in WriteOutcomes }
        : i \in init_csv(file) }

(***************************************************************************)
(* The generation capability and the quota-aware invoker.                  *)
(***************************************************************************)
wait_times == <<5, 30>>

\* What the provider can answer: a text, or an error with this message.
Tok(k, v) == [k |-> k, v |-> v]
Fence == Tok("fence", "")            \* three backquotes
FenceJson == Tok("fence", "json")    \* three backquotes and the word json
Space == Tok("ws", " ")
Prose == Tok("lit", "Here is the JSON:")
Json(d) == [k |-> "json", v |-> d]

PartialMap ==
    [ agent_name |-> Str("Jane Tan"),
      agent_phone |-> Str("91234567"),
      price |-> Str("$1,200,000") ]

FullMap ==
    [ agent_name |-> Str("Ali"), agent_phone |-> Null, agency_name |-> Str("ERA"),
      agent_license |-> Str("R1"), title |-> Str("Condo"), price |-> Str("$2"),
      address |-> Str("1 Main St"), district |-> Str("D9"),
      property_type |-> Str("Condo"), tenure |-> Str("99"), built_year |-> Num(1999),
      developer |-> Str("CDL"), bedrooms |-> Num(3), bathrooms |-> Num(2),
      size_sqft |-> Num(980), psf |-> Str("$1,250"), furnishing |-> Str("Bare"),
      floor_level |-> Str("High"), facilities |-> Str("Pool"),
      description_summary |-> Str("Bright"), confidence |-> Str("high") ]

EmptyMap == [k \in {} |-> Null]

Responses ==
    { <<FenceJson, Space, Json(Dict(PartialMap)), Space, Fence>>,
      <<Json(Dict(FullMap))>>,
      <<Space, Json(Dict(EmptyMap))>>,
      <<Json(List)>>,
      <<Prose, FenceJson, Json(Dict(PartialMap)), Fence>> }

Messages == {"429 Too Many Requests", "Quota exceeded", "connection reset"}

ProviderOutcomes ==
    {[kind |-> "return", text |-> t, error |-> ""] : t \in Responses}
        \cup {[kind |-> "raise", text |-> <<>>, error |-> m] : m \in Messages}

QuotaExceeded == "Failed to get response from Gemini (Quota Exceeded)."

\* "429" in str(e) or "quota" in str(e).lower()
IsQuotaError(msg) == Contains(msg, "429") \/ Contains(Lower(msg), "quota")

Label(o) == IF o.kind = "return" THEN "ok" ELSE o.error

GenResult(kind, text, error, log, waits) ==
    [kind |-> kind, text |-> text, error |-> error, log |-> log, waits |-> waits]

\* A plausible slip: every provider error is retried.
RECURSIVE safe_generate_content_retry_all(_, _, _)
safe_generate_content_retry_all(attempt, log, waits) ==
    IF attempt >= Len(wait_times)
    THEN {GenResult("raise", <<>>, QuotaExceeded, log, waits)}
    ELSE UNION {
            IF o.kind = "return"
            THEN {GenResult("return", o.text, "", Append(log, Label(o)), waits)}
            ELSE safe_generate_content_retry_all(attempt + 1, Append(log, Label(o)),
                                                 Append(waits, wait_times[attempt + 1]))
            : o \in ProviderOutcomes }

\* safe_generate_content from loop index attempt on; log holds the outcome of
\* every call made so far and waits the sleeps performed so far.
RECURSIVE safe_generate_content(_, _, _)
safe_generate_content(attempt, log, waits) ==
    IF attempt >= Len(wait_times)
    THEN {GenResult("raise", <<>>, QuotaExceeded, log, waits)}
    ELSE UNION {
            IF o.kind = "return"
            THEN {GenResult("return", o.text, "", Append(log, Label(o)), waits)}
            ELSE IF IsQuotaError(o.error)
            THEN safe_generate_content(attempt + 1, Append(log, Label(o)),
                                       Append(waits, wait_times[attempt + 1]))
            ELSE {GenResult("raise", <<>>, o.error, Append(log, Label(o)), waits)}
            : o \in ProviderOutcomes }

(***************************************************************************)
(* response.text with the json fence removed, then the bare fence, then    *)
(* strip(), and json.loads; a text is given as its sequence of tokens.     *)
(***************************************************************************)
RECURSIVE Remove(_, _)
Remove(text, tok) ==
    IF text = <<>> THEN <<>>
    ELSE IF Head(text).k = tok.k /\ Head(text).v = tok.v THEN Remove(Tail(text), tok)
    ELSE <<Head(text)>> \o Remove(Tail(text), tok)

RECURSIVE Strip(_)
Strip(text) ==
    IF text = <<>> THEN <<>>
    ELSE IF Head(text).k = "ws" THEN Strip(Tail(text))
    ELSE IF text[Len(text)].k = "ws" THEN Strip(SubSeq(text, 1, Len(text) - 1))
    ELSE text

json_str(text) == Strip(Remove(Remove(text, FenceJson), Fence))

\* json.loads: the value, or NoData for a JSONDecodeError
json_loads(text) ==
    IF Len(text) = 1 /\ text[1].k = "json" THEN text[1].v ELSE NoData

(***************************************************************************)
(* The page the user has navigated the browser to, as the handler sees it: *)
(* its URL and its elements.  An element carries the trigger phrases its   *)
(* text contains (what the XPath lookup matches), its tag as tag_name      *)
(* reports it, whether reading tag_name raises (a stale element) and       *)
(* whether the click script raises.  lookupFails holds the phrases for     *)
(* which find_elements itself raises.                                      *)
(***************************************************************************)
keywords == <<"Show Number", "View", "Call", "Contact", "WhatsApp">>

Element(tag, text, stale, clickRaises) ==
    [tag |-> tag, text |-> text, stale |-> stale, clickRaises |-> clickRaises]

Pages ==
    { [ url |-> "https://pg.example/listing/1",
        elems |-> << Element("a", {"Contact"}, FALSE, FALSE),
                     Element("button", {"Show Number"}, FALSE, FALSE),
                     Element("A", {"View", "Call"}, FALSE, FALSE),
                     Element("span", {"WhatsApp"}, FALSE, TRUE) >>,
        lookupFails |-> {} ],
      [ url |-> "https://pg.example/listing/2",
        elems |-> << Element("DIV", {"View", "Call", "Contact"}, FALSE, FALSE),
                     Element("a", {"Call"}, TRUE, FALSE) >>,
        lookupFails |-> {"Contact"} ] }

\* el.tag_name.lower() == 'a'
IsLinkExactCase(el) == el.tag = "a"
IsLink(el) == Lower(el.tag) = "a"

Click(key, i, el) == [key |-> key, index |-> i, tag |-> el.tag]

\* the inner loop over the elements found for one phrase, from element i on
RECURSIVE ClickMatches(_, _, _)
ClickMatches(key, elems, i) ==
    IF i > Len(elems) THEN <<>>
    ELSE LET el == elems[i]
             rest == ClickMatches(key, elems, i + 1)
         IN  IF key \notin el.text THEN rest
             ELSE IF el.stale THEN rest
             ELSE IF IsLink(el) THEN rest
             ELSE <<Click(key, i, el)>> \o rest

\* the loop over the phrases, from phrase k on: the clicks invoked, in order
RECURSIVE RevealClick(_, _)
RevealClick(page, k) ==
    IF k > Len(keywords) THEN <<>>
    ELSE (IF keywords[k] \in page.lookupFails THEN <<>>
          ELSE ClickMatches(keywords[k], page.elems, 1))
         \o RevealClick(page, k + 1)

(***************************************************************************)
(* The handlers.                                                           *)
(***************************************************************************)
\* driver_keeper.current_url  # Check if alive
ProbeAliveNever(keeper, liveSet) == FALSE
ProbeAlive(keeper, liveSet) == keeper \in liveSet

LaunchResult(keeper, liveSet, n, status, detail, constructed) ==
    [keeper |-> keeper, live |-> liveSet, sessions |-> n,
     status |-> status, detail |-> detail, constructed |-> constructed]

\* launch_browser with the handle, the live sessions and the number of
\* sessions constructed so far: the results the request can end with.
launch_browser(keeper, liveSet, n) ==
    IF keeper # None /\ ProbeAlive(keeper, liveSet)
    THEN {LaunchResult(keeper, liveSet, n, 200, "Browser is already open.", FALSE)}
    ELSE LET id == n + 1
         IN  { LaunchResult(None, liveSet, n, 500, "cannot connect to chrome", FALSE),
               LaunchResult(id, liveSet \cup {id}, id, 200, "Browser launched!", TRUE),
               LaunchResult(id, liveSet \cup {id}, id, 500, "net::ERR_TIMED_OUT", TRUE) }

ScrapeResult(status, detail, data, file, clicked, gen, parsed, saved) ==
    [status |-> status, detail |-> detail, data |-> data, file |-> file,
     clicked |-> clicked, log |-> gen.log, waits |-> gen.waits,
     parsed |-> parsed, saved |-> saved]

NoGen == GenResult("none", <<>>, "", <<>>, <<>>)

\* response = safe_generate_content(prompt): every way the call can end
Invocations == safe_generate_content(0, <<>>, <<>>)

\* scrape_current on `page`: the results the request can end with.
scrape_current(keeper, liveSet, file, now, page) ==
    IF keeper = None
    THEN {ScrapeResult(400, "Browser not open.", NoData, file, <<>>, NoGen, FALSE, FALSE)}
    ELSE IF keeper \notin liveSet
    THEN {ScrapeResult(500, "invalid session id", NoData, file, <<>>, NoGen, FALSE, FALSE)}
    ELSE LET clicked == RevealClick(page, 1)
         IN  UNION {
                IF g.kind = "raise"
                THEN {ScrapeResult(500, g.error, NoData, file, clicked, g, FALSE, FALSE)}
                ELSE LET data == json_loads(json_str(g.text))
                     IN  IF data = NoData
                         THEN {ScrapeResult(500, "Expecting value", NoData, file,
                                            clicked, g, FALSE, FALSE)}
                         ELSE { IF s.raised # "none"
                                THEN ScrapeResult(500, s.raised, NoData, s.file,
                                                  clicked, g, TRUE, s.saved)
                                ELSE ScrapeResult(200, "success", data, s.file,
                                                  clicked, g, TRUE, s.saved)
                                : s \in save_to_csv(file, data, page.url, now) }
                : g \in Invocations }

Last(op, status, detail, data, url, clicked, log, waits, parsed, saved, constructed) ==
    [op |-> op, status |-> status, detail |-> detail, data |-> data, url |-> url,
     clicked |-> clicked, log |-> log, waits |-> waits, parsed |-> parsed,
     saved |-> saved, constructed |-> constructed,
     keeperBefore |-> driver_keeper, aliveBefore |-> driver_keeper \in live,
     before |-> csv]

Init ==
    /\ driver_keeper = None
    /\ live = {}
    /\ sessions = 0
    /\ csv = Absent
    /\ clock = 0
    /\ successes = 0
    /\ stored = 0
    /\ last = [op |-> "none", status |-> 0, detail |-> "", data |-> NoData, url |-> "",
               clicked |-> <<>>, log |-> <<>>, waits |-> <<>>, parsed |-> FALSE,
               saved |-> FALSE, constructed |-> FALSE,
               keeperBefore |-> None, aliveBefore |-> FALSE, before |-> Absent]

\* POST /launch-browser
LaunchBrowser ==
    \E r \in launch_browser(driver_keeper, live, sessions) :
        /\ r.sessions <= MaxSessions
        /\ driver_keeper' = r.keeper
        /\ live' = r.live
        /\ sessions' = r.sessions
        /\ last' = Last("launch", r.status, r.detail, NoData, "", <<>>, <<>>, <<>>,
                        FALSE, FALSE, r.constructed)
        /\ UNCHANGED <<csv, clock, successes, stored>>

\* POST /scrape-current-page, the browser being on some page
ScrapeCurrent ==
    /\ clock < MaxScrapes
    /\ \E page \in Pages :
         \E r \in scrape_current(driver_keeper, live, csv, clock + 1, page) :
            /\ csv' = r.file
            /\ clock' = clock + 1
            /\ successes' = successes + (IF r.status = 200 THEN 1 ELSE 0)
            /\ stored' = stored + (IF r.saved THEN 1 ELSE 0)
            /\ last' = Last("scrape", r.status, r.detail, r.data, page.url, r.clicked,
                            r.log, r.waits, r.parsed, r.saved, FALSE)
            /\ UNCHANGED <<driver_keeper, live, sessions>>

\* The user closes the browser window, or the browser crashes.
BrowserClosed ==
    \E s \in live :
        /\ live' = live \ {s}
        /\ UNCHANGED <<driver_keeper, sessions, csv, clock, successes, stored, last>>

Next == LaunchBrowser \/ ScrapeCurrent \/ BrowserClosed

Spec == Init /\ [][Next]_vars

(***************************************************************************)
(* Properties.                                                             *)
(***************************************************************************)
\* the rows of the store other than the header row
DataRows(rows) == Cardinality({i \in 1..Len(rows) : rows[i] # CSV_HEADERS})

LastRow == csv.rows[Len(csv.rows)]

NonQuotaFailure(label) == label # "ok" /\ ~IsQuotaError(label)

\* C1: an extract request made without a live session handle (none stored, or
\* the stored one fails the liveness probe) fails with the precondition error
\* "Browser not open." and writes nothing to the store.
C1_NoLiveSessionIsPreconditionError ==
    (last.op = "scrape" /\ ~(last.keeperBefore # None /\ last.aliveBefore))
        => /\ last.status = 400
           /\ last.detail = "Browser not open."
           /\ csv = last.before

\* C2: when every call of the generation capability fails with a quota error,
\* the invoker makes the initial call and exactly two retries, after waits of 5
\* and 30 seconds, and then raises the distinct quota-exceeded error.
C2_QuotaExhaustionAfterTwoRetries ==
    (last.op = "scrape" /\ last.log # <<>>
        /\ \A i \in 1..Len(last.log) : IsQuotaError(last.log[i]))
        => /\ Len(last.log) = 1 + 2
           /\ last.waits = <<5, 30>>
           /\ last.status = 500
           /\ last.detail = QuotaExceeded

\* C3: a failure of the generation capability that is not a quota error ends
\* the invocation at the attempt where it occurs: it is the last call made, it
\* reaches the caller unchanged, the only waits performed are those of the
\* quota failures before it, and nothing is written to the store.
C3_NonQuotaErrorPropagates ==
    last.op = "scrape" =>
        \A i \in 1..Len(last.log) :
            NonQuotaFailure(last.log[i])
                => /\ i = Len(last.log)
                   /\ last.status = 500
                   /\ last.detail = last.log[i]
                   /\ Len(last.waits) = i - 1
                   /\ \A j \in 1..(i - 1) : IsQuotaError(last.log[j])
                   /\ csv = last.before

C3_Witness ==
    /\ last.op = "scrape"
    /\ last.log = <<"Quota exceeded", "connection reset">>
    /\ last.detail = "connection reset"
    /\ last.waits = <<5>>

\* The column each key of the extraction schema is meant for.
ColumnFor ==
    [ agent_name |-> "Agent Name", agent_phone |-> "Agent Phone",
      agency_name |-> "Agency Name", agent_license |-> "Agent License",
      title |-> "Title", price |-> "Price", address |-> "Address",
      district |-> "District", property_type |-> "Property Type",
      tenure |-> "Tenure", built_year |-> "Built Year", developer |-> "Developer",
      bedrooms |-> "Bedrooms", bathrooms |-> "Bathrooms",
      size_sqft |-> "Size (sqft)", psf |-> "Price per sqft",
      furnishing |-> "Furnishing", floor_level |-> "Floor Level",
      facilities |-> "Facilities", description_summary |-> "Description Summary" ]

ColumnOf(header) == CHOOSE c \in 1..Len(CSV_HEADERS) : CSV_HEADERS[c] = header

\* the cell holds the value as supplied: a string verbatim, null as the empty
\* field, a number as its decimal text
Unchanged(v, cell) ==
    /\ v[1] = "str" => cell = v[2]
    /\ v[1] = "null" => cell = ""
    /\ v[1] = "num" => cell = ToString(v[2])

\* the row of a completed append: timestamp, URL and n schema values in the
\* header's order, supplied values unchanged and "N/A" for the absent keys
AppendedRowHas(n) ==
    (last.op = "scrape" /\ last.saved) =>
        LET m == last.data.map
        IN  /\ Len(csv.rows) = Len(last.before.rows) + 1
                \/ Len(csv.rows) = Len(last.before.rows) + 2
            /\ Len(LastRow) = Len(CSV_HEADERS)
            /\ Len(LastRow) - 2 = n
            /\ Cardinality(DOMAIN ColumnFor) = n
            /\ LastRow[ColumnOf("Timestamp")] = strftime(clock)
            /\ LastRow[ColumnOf("URL")] = last.url
            /\ \A key \in DOMAIN ColumnFor :
                  LET cell == LastRow[ColumnOf(ColumnFor[key])]
                  IN  IF key \in DOMAIN m THEN Unchanged(m[key], cell)
                      ELSE cell = "N/A"

\* C4 (as stated): a successful append writes the timestamp, the URL and
\* exactly 21 schema values in the header's order, supplied values unchanged
\* and "N/A" for absent keys, in as many columns as the header has.
C4_RowHasTwentyOneSchemaValues == AppendedRowHas(21)

\* C4 (amended): the same with exactly 20 schema values: the header has 22
\* columns, the timestamp, the URL and the 20 fields of the schema.
C4_RowHasTwentySchemaValues == AppendedRowHas(20)

C4_Witness ==
    /\ last.op = "scrape" /\ last.saved /\ last.status = 200
    /\ last.data = Dict(PartialMap)
    /\ LastRow[3] = "Jane Tan" /\ LastRow[5] = "N/A" /\ LastRow[8] = "$1,200,000"

\* C5 (as stated): every extract request answered with success adds exactly
\* one row, and the number of data rows equals the number of success responses.
C5_EverySuccessAddsOneRow ==
    /\ (last.op = "scrape" /\ last.status = 200)
          => DataRows(csv.rows) = DataRows(last.before.rows) + 1
    /\ DataRows(csv.rows) = successes

\* C5 (amended): an extract request answered with success adds exactly one row
\* when the row write completes and none when creating or writing the store
\* fails; a failed request adds none; the number of data rows equals the number
\* of success responses whose write completed, so it never exceeds the number
\* of success responses.
C5_SuccessAddsRowUnlessWriteFails ==
    /\ last.op = "scrape" =>
          DataRows(csv.rows) = DataRows(last.before.rows)
              + (IF last.status = 200 /\ last.saved THEN 1 ELSE 0)
    /\ (last.op = "scrape" /\ last.saved) => last.status = 200
    /\ DataRows(csv.rows) = stored
    /\ stored <= successes

\* two captures of the same URL, both stored
C5_Witness ==
    /\ last.op = "scrape" /\ last.status = 200 /\ last.saved
    /\ successes = 2 /\ DataRows(csv.rows) = 2
    /\ Len(csv.rows) = 3
    /\ csv.rows[2][2] = csv.rows[3][2]

\* C6: when the model call and the JSON parse succeed but creating the store
\* or writing the row fails, the request still answers success with the parsed
\* value, and no error reaches the caller.
C6_StoreFailureIsNotFatal ==
    (last.op = "scrape" /\ last.parsed /\ ~last.saved)
        => /\ last.status = 200
           /\ last.detail = "success"
           /\ last.data # NoData

C6_Witness ==
    /\ last.op = "scrape" /\ last.parsed /\ ~last.saved
    /\ last.data = Dict(PartialMap)
    /\ last.before.exists /\ csv = last.before
    /\ last.status = 200

\* C7: a launch request made while the stored handle is live constructs no
\* session, leaves the handle as it was and answers "Browser is already
\* open."; at every moment each live session is the stored handle, so at most
\* one exists.
C7_LaunchWhileLiveIsNoOp ==
    /\ (last.op = "launch" /\ last.aliveBefore)
          => /\ last.status = 200
             /\ last.detail = "Browser is already open."
             /\ ~last.constructed
             /\ driver_keeper = last.keeperBefore
    /\ live \subseteq {driver_keeper}
    /\ Cardinality(live) <= 1

C7_Witness ==
    /\ last.op = "launch" /\ last.aliveBefore
    /\ last.detail = "Browser is already open."
    /\ driver_keeper \in live

\* C8: in every extract request the click script is invoked only on elements
\* whose tag is not the hyperlink tag.
C8_NoLinkIsClicked ==
    \A i \in 1..Len(last.clicked) : last.clicked[i].tag \notin {"a", "A"}

\* the page with two matched links, a button and a span: only the latter two
\* are clicked
C8_Witness ==
    /\ last.op = "scrape"
    /\ last.url = "https://pg.example/listing/1"
    /\ Len(last.clicked) = 2
    /\ last.clicked[1].tag = "button"

\* C9: a launch request reports an error exactly when it leaves no session
\* stored, and a handle is newly stored only by a launch that answers
\* "Browser launched!".
C9_LaunchErrorLeavesNoHandle ==
    last.op = "launch" =>
        /\ last.status = 500 <=> driver_keeper = None
        /\ (driver_keeper # None /\ driver_keeper # last.keeperBefore)
              => last.detail = "Browser launched!"

\* C10: the store holds no row (it is absent), or it is the header row
\* followed only by data rows: a data row is never written to a store without
\* the header, the header is never written again, and rows once written are
\* kept as they are.
C10_StoreIsHeaderThenDataRows ==
    /\ csv.rows # <<>> =>
          /\ csv.rows[1] = CSV_HEADERS
          /\ \A i \in 2..Len(csv.rows) : csv.rows[i] # CSV_HEADERS
    /\ last.op = "scrape" =>
          /\ Len(last.before.rows) <= Len(csv.rows)
          /\ SubSeq(csv.rows, 1, Len(last.before.rows)) = last.before.rows

====
